---- MODULE Spec2Model ----
(***************************************************************************)
(* Version negotiation and the cached preferred version of the custom      *)
(* metrics client (k8s.io/metrics/pkg/client/custom_metrics).              *)
(*                                                                         *)
(*   SpecNeg  the negotiation functions (fetchVersions, chooseVersion,     *)
(*            negotiatePreferredVersion) applied to every discovery        *)
(*            response of a bounded family.                                *)
(*   Spec     concurrent callers of PreferredVersion and Invalidate on     *)
(*            one apiVersionsFromDiscovery, one step per lock operation,   *)
(*            read, discovery call and write.                              *)
(***************************************************************************)
EXTENDS Integers, Sequences, FiniteSets, TLC

\* ------------------------------------------------------------------ bounds
MaxVersions == 3        \* longest advertised version list (SpecNeg)
MaxSkipped == 2         \* most groups of other APIs listed before the metrics group (SpecNeg)
NumCallers == 2         \* concurrent callers (Spec)
NumHandlers == 2         \* requests served at the same time (SpecProv)
MaxRequests == 3         \* requests begun in one behaviour (SpecProv)
MaxOps == 4             \* operations started in one behaviour (Spec)

\* --------------------------------------------------------------- data model
Nil == "<nil>"

GroupName == "custom.metrics.k8s.io"
OtherGroupName == "metrics.k8s.io"
APIVersionInternal == "__internal"

GV(g, v) == [Group |-> g, Version |-> v]

\* schema.GroupVersion{}: the zero value chooseVersion returns with an error
ZeroGV == GV("", "")

\* schema.GroupVersion.String()
GVString(gv) ==
    IF gv.Group = "" /\ gv.Version = "" THEN ""
    ELSE IF gv.Group = "" THEN gv.Version
    ELSE gv.Group \o "/" \o gv.Version

V1beta1 == GV(GroupName, "v1beta1")
V1beta2 == GV(GroupName, "v1beta2")
Internal == GV(GroupName, APIVersionInternal)

\* the versions accepted by the converter, in the client's order
MetricVersions == <<V1beta2, V1beta1, Internal>>

MapPut(m, k, v) == [x \in (DOMAIN m) \cup {k} |-> IF x = k THEN v ELSE m[x]]

\* init() keying the table by the bare version name
RECURSIVE initTable_ByVersion(_, _)
initTable_ByVersion(i, m) ==
    IF i > Len(MetricVersions) THEN m
    ELSE initTable_ByVersion(i + 1, MapPut(m, MetricVersions[i].Version, MetricVersions[i]))

RECURSIVE initTable(_, _)
initTable(i, m) ==
    IF i > Len(MetricVersions) THEN m
    ELSE initTable(i + 1, MapPut(m, GVString(MetricVersions[i]), MetricVersions[i]))

\* init(): string group-version -> group-version object
metricVersionsToGV == initTable(1, <<>>)

\* metav1.GroupVersionForDiscovery as makeAPIGroup builds it
DiscoVersion(ver) == [GroupVersion |-> GVString(GV(GroupName, ver)), Version |-> ver]
ZeroDiscoVersion == [GroupVersion |-> "", Version |-> ""]

\* makeAPIGroup(prefVer, versions...)
makeAPIGroup(prefVer, versions) ==
    [Name |-> GroupName,
     Versions |-> [i \in DOMAIN versions |-> DiscoVersion(versions[i])],
     PreferredVersion |-> IF prefVer # "" THEN DiscoVersion(prefVer) ELSE ZeroDiscoVersion]

\* a group of another API, which fetchVersions has to skip
OtherGroup ==
    [Name |-> OtherGroupName,
     Versions |-> <<[GroupVersion |-> GVString(GV(OtherGroupName, "v1beta1")), Version |-> "v1beta1"]>>,
     PreferredVersion |-> [GroupVersion |-> GVString(GV(OtherGroupName, "v1beta1")), Version |-> "v1beta1"]]

\* ------------------------------------------------------------------- errors
ErrNotRegistered == "no custom metrics API (" \o GroupName \o ") registered"
ErrNoKnownVersions == "no known available metric versions found"
\* errors of the discovery client (ServerGroups)
DiscoveryErrors == {"connection refused", "the server is currently unable to handle the request"}

\* -------------------------------------------------------------- negotiation
\* a nil pointer (*metav1.APIGroup, *schema.GroupVersion)
NilPtr == [nil |-> TRUE]

RECURSIVE findGroup(_, _)
findGroup(groups, i) ==
    IF i > Len(groups) THEN 0
    ELSE IF groups[i].Name = GroupName THEN i
    ELSE findGroup(groups, i + 1)

\* fetchVersions reporting a missing group with the negotiation error
fetchVersions_NegotiationError(resp) ==
    IF resp.err # Nil THEN [group |-> NilPtr, err |-> resp.err]
    ELSE LET i == findGroup(resp.groups, 1)
         IN  IF i = 0 THEN [group |-> NilPtr, err |-> ErrNoKnownVersions]
             ELSE [group |-> resp.groups[i], err |-> Nil]

\* fetchVersions wrapping the error of ServerGroups in one of its own
fetchVersions_WrapError(resp) ==
    IF resp.err # Nil THEN [group |-> NilPtr, err |-> "unable to fetch API groups: " \o resp.err]
    ELSE LET i == findGroup(resp.groups, 1)
         IN  IF i = 0 THEN [group |-> NilPtr, err |-> ErrNotRegistered]
             ELSE [group |-> resp.groups[i], err |-> Nil]

\* fetchVersions answering a missing group with an empty group and no error
fetchVersions_MissingAsEmpty(resp) ==
    IF resp.err # Nil THEN [group |-> NilPtr, err |-> resp.err]
    ELSE LET i == findGroup(resp.groups, 1)
         IN  IF i = 0
             THEN [group |-> [Name |-> GroupName, Versions |-> <<>>,
                              PreferredVersion |-> ZeroDiscoVersion],
                   err |-> Nil]
             ELSE [group |-> resp.groups[i], err |-> Nil]

\* fetchVersions on the outcome resp of d.client.ServerGroups()
fetchVersions(resp) ==
    IF resp.err # Nil THEN [group |-> NilPtr, err |-> resp.err]
    ELSE LET i == findGroup(resp.groups, 1)
         IN  IF i = 0 THEN [group |-> NilPtr, err |-> ErrNotRegistered]
             ELSE [group |-> resp.groups[i], err |-> Nil]

\* the scan in the client's order: the first of MetricVersions that is advertised
RECURSIVE chooseScan_ClientOrder(_, _)
chooseScan_ClientOrder(versions, i) ==
    IF i > Len(MetricVersions) THEN NilPtr
    ELSE IF \E j \in DOMAIN versions : versions[j].GroupVersion = GVString(MetricVersions[i])
         THEN MetricVersions[i]
    ELSE chooseScan_ClientOrder(versions, i + 1)

\* the scan taking the first advertised version, known or not
chooseScan_AnyVersion(versions, i) ==
    IF i > Len(versions) THEN NilPtr
    ELSE GV(GroupName, versions[i].Version)

RECURSIVE chooseScan(_, _)
chooseScan(versions, i) ==
    IF i > Len(versions) THEN NilPtr
    ELSE IF versions[i].GroupVersion \in DOMAIN metricVersionsToGV
         THEN metricVersionsToGV[versions[i].GroupVersion]
    ELSE chooseScan(versions, i + 1)

\* chooseVersion scanning the list before looking at the declared preference
chooseVersion_ListFirst(apiGroup) ==
    LET pv == apiGroup.PreferredVersion.GroupVersion
        scanned == chooseScan(apiGroup.Versions, 1)
        preferredVersion ==
            IF scanned # NilPtr THEN scanned
            ELSE IF pv \in DOMAIN metricVersionsToGV /\ pv # "" THEN metricVersionsToGV[pv]
            ELSE NilPtr
    IN  IF preferredVersion = NilPtr
        THEN [gv |-> ZeroGV, err |-> ErrNoKnownVersions]
        ELSE [gv |-> preferredVersion, err |-> Nil]

\* chooseVersion scanning the list only when no preference is declared
chooseVersion_NoFallback(apiGroup) ==
    LET pv == apiGroup.PreferredVersion.GroupVersion
        preferredVersion ==
            IF pv # ""
            THEN IF pv \in DOMAIN metricVersionsToGV THEN metricVersionsToGV[pv] ELSE NilPtr
            ELSE chooseScan(apiGroup.Versions, 1)
    IN  IF preferredVersion = NilPtr
        THEN [gv |-> ZeroGV, err |-> ErrNoKnownVersions]
        ELSE [gv |-> preferredVersion, err |-> Nil]

chooseVersion(apiGroup) ==
    LET pv == apiGroup.PreferredVersion.GroupVersion
        preferredVersion ==
            IF pv \in DOMAIN metricVersionsToGV /\ pv # ""
            THEN metricVersionsToGV[pv]
            ELSE chooseScan(apiGroup.Versions, 1)
    IN  IF preferredVersion = NilPtr
        THEN [gv |-> ZeroGV, err |-> ErrNoKnownVersions]
        ELSE [gv |-> preferredVersion, err |-> Nil]

RECURSIVE negotiateScan(_, _)
negotiateScan(versions, i) ==
    IF i > Len(versions) THEN NilPtr
    ELSE IF versions[i].GroupVersion \in DOMAIN metricVersionsToGV
         THEN metricVersionsToGV[versions[i].GroupVersion]
    ELSE negotiateScan(versions, i + 1)

\* negotiatePreferredVersion looking only at the advertised list
negotiatePreferredVersion_ListOnly(apiGroup) ==
    LET preferredVersion == negotiateScan(apiGroup.Versions, 1)
    IN  IF preferredVersion = NilPtr
        THEN [gv |-> NilPtr, err |-> ErrNoKnownVersions]
        ELSE [gv |-> preferredVersion, err |-> Nil]

negotiatePreferredVersion(apiGroup) ==
    LET pv == apiGroup.PreferredVersion.GroupVersion
        preferredVersion ==
            IF pv \in DOMAIN metricVersionsToGV /\ pv # ""
            THEN metricVersionsToGV[pv]
            ELSE negotiateScan(apiGroup.Versions, 1)
    IN  IF preferredVersion = NilPtr
        THEN [gv |-> NilPtr, err |-> ErrNoKnownVersions]
        ELSE [gv |-> preferredVersion, err |-> Nil]

\* -------------------------------------------------------------------- state
VARIABLES
    prefVersion,    \* d.prefVersion: NilPtr or the cached group-version
    readers,        \* callers holding d.mu for reading (RLock)
    writers,        \* callers holding d.mu for writing (Lock)
    pc,             \* position of each caller
    groupInfo,      \* PreferredVersion's local groupInfo, per caller
    version,        \* PreferredVersion's local prefVersion, per caller
    ret,            \* the (version, error) a caller is about to return
    note,           \* per caller: bookkeeping about its current and previous call
    hist,           \* bookkeeping about the instance: discovery calls, returns
    nresp,          \* SpecNeg: the outcome of ServerGroups
    nstage,         \* SpecNeg: "input", "fetched" or "done"
    nfetch,         \* SpecNeg: result of fetchVersions
    nchoose,        \* SpecNeg: result of chooseVersion
    nneg,           \* SpecNeg: result of negotiatePreferredVersion
    scheme,         \* SpecConv: what the scheme does on each conversion leg
    call,           \* SpecConv: the MetricConverter call and its arguments
    cpc,            \* SpecConv: "called" or "done"
    cret,           \* SpecConv: the (object, error) returned and the calls made
    vpc,            \* SpecVers: position of the Versions call
    vfetch,         \* SpecVers: group, present, err of the last maybeFetchVersions
    vret,           \* SpecVers: the (group, error) returned
    vlog,           \* SpecVers: calls made on the cached discovery client
    values,         \* SpecProv: E2EProvider.values
    hpc,            \* SpecProv: position of each request being served
    hreq,           \* SpecProv: the request each handler serves or served last
    hres,           \* SpecProv: what that request was answered
    plog            \* SpecProv: history of the provider

cvars == <<prefVersion, readers, writers, pc, groupInfo, version, ret, note, hist>>
nvars == <<nresp, nstage, nfetch, nchoose, nneg>>
xvars == <<scheme, call, cpc, cret>>
dvars == <<vpc, vfetch, vret, vlog>>
pvars == <<values, hpc, hreq, hres, plog>>
vars == <<prefVersion, readers, writers, pc, groupInfo, version, ret, note, hist,
          nresp, nstage, nfetch, nchoose, nneg, scheme, call, cpc, cret,
          vpc, vfetch, vret, vlog, values, hpc, hreq, hres, plog>>

Callers == 1..NumCallers

NoRet == [gv |-> NilPtr, err |-> Nil]
NoResult == [unset |-> TRUE]

\* --------------------------------------------------- discovery responses
OkResp(groups) == [groups |-> groups, err |-> Nil]
ErrResp(e) == [groups |-> <<>>, err |-> e]

\* version names a server may advertise: two known ones, the internal one and
\* one the client does not know
AdvertisedNames == {"v1beta1", "v1beta2", APIVersionInternal, "v1"}

RECURSIVE SeqsUpTo(_, _)
SeqsUpTo(S, n) ==
    IF n = 0 THEN {<<>>}
    ELSE LET shorter == SeqsUpTo(S, n - 1)
         IN  shorter \cup {Append(q, x) : q \in {r \in shorter : Len(r) = n - 1}, x \in S}

MetricsGroups ==
    {makeAPIGroup(pv, vs) : pv \in AdvertisedNames \cup {""},
                            vs \in SeqsUpTo(AdvertisedNames, MaxVersions)}

\* k groups of other APIs
Others(k) == [i \in 1..k |-> OtherGroup]

\* what may follow the metrics group in the list: nothing, another API's
\* group, or a second group of the same name, which fetchVersions never reaches
Tails == {<<>>, <<OtherGroup>>, <<makeAPIGroup("v1beta2", <<"v1beta2">>)>>}

\* SpecNeg: the answers of ServerGroups: an error, a list without the metrics
\* group, or a list with a metrics group after up to MaxSkipped other groups
NegResponses ==
    {ErrResp(e) : e \in DiscoveryErrors}
        \cup {OkResp(Others(k)) : k \in 0..MaxSkipped}
        \cup {OkResp(Others(k) \o <<g>> \o t) : k \in 0..MaxSkipped, g \in MetricsGroups, t \in Tails}

\* Spec: what the server may answer to one ServerGroups call; the answer may
\* differ from call to call (the server's groups change over time)
ServerResponses ==
    {ErrResp(e) : e \in DiscoveryErrors}
        \cup {OkResp(<<OtherGroup>>),
              OkResp(<<OtherGroup, makeAPIGroup("v1beta1", <<"v1beta2">>)>>),
              OkResp(<<makeAPIGroup("", <<"v1", "v1beta2", "v1beta1">>)>>),
              OkResp(<<makeAPIGroup("v1", <<"v1">>)>>)}

\* ------------------------------------------------------------ E2EProvider
Handlers == 1..NumHandlers

\* request parameters of the bounded family
ResourceTypes == {"services", "service"}
Namespace == "custom-metrics"
ResourceName == "custom-metrics-apiserver"
MetricName == "packets-per-second"

\* request bodies: {"Value":n}, the JSON literal null, and bytes that are not
\* JSON
Bodies == {[kind |-> "json", Value |-> n] : n \in {1, 2}}
            \cup {[kind |-> "null"], [kind |-> "garbled"]}
ErrReadEntity == "invalid character in the request body"

\* request.ReadEntity(&value), value being a *MetricValue: the decoder is
\* handed a pointer to the pointer, so the literal null sets value to nil
\* and reports no error
ReadEntity(body) ==
    IF body.kind = "garbled" THEN [value |-> [Value |-> 0], err |-> ErrReadEntity]
    ELSE IF body.kind = "null" THEN [value |-> NilPtr, err |-> Nil]
    ELSE [value |-> [Value |-> body.Value], err |-> Nil]

\* schema.ParseGroupResource of a resource type without a group
ParseGroupResource(resourceType) == [Group |-> "", Resource |-> resourceType]

\* info.Normalized(p.mapper): the mapper gives the plural resource of the
\* kinds it knows; for the others it fails and the info comes back as given
\* (the error is only logged)
MapperKnows == {"services", "service", "namespaces"}
Plural(resource) == IF resource = "service" THEN "services" ELSE resource
Normalized(info) ==
    IF info.GroupResource.Resource \in MapperKnows
    THEN [info EXCEPT !.GroupResource.Resource = Plural(@)]
    ELSE info

CustomMetricInfo(groupResource, metricName, namespaced) ==
    [GroupResource |-> groupResource, Metric |-> metricName, Namespaced |-> namespaced]
CustomMetricResource(info, name, namespace) ==
    [CustomMetricInfo |-> info, Name |-> name, Namespace |-> namespace]

\* the key updateResource computes from the path parameters
updateKey(r) ==
    LET namespaced == Len(r.namespace) > 0 \/ r.resourceType = "namespaces"
        info == Normalized(CustomMetricInfo(ParseGroupResource(r.resourceType), r.metric, namespaced))
    IN  CustomMetricResource(info, r.name, r.namespace)

\* the key valueFor computes from its arguments
valueKey(r) ==
    CustomMetricResource(Normalized(CustomMetricInfo(r.groupResource, r.metric, r.namespaced)),
                         r.name, r.namespace)

UpdateRequests ==
    {[op |-> "updateResource", namespace |-> ns, resourceType |-> rt, name |-> ResourceName,
      metric |-> MetricName, body |-> b] :
        ns \in {Namespace}, rt \in ResourceTypes, b \in Bodies}
\* valueFor as GetNamespacedMetricByName and GetRootScopedMetricByName call it
ValueRequests ==
    {[op |-> "valueFor", groupResource |-> ParseGroupResource(rt), metric |-> MetricName,
      namespace |-> ns, name |-> ResourceName, namespaced |-> ns # ""] :
        rt \in ResourceTypes, ns \in {Namespace, ""}}
ListRequest == [op |-> "ListAllMetrics"]
NoRequest == [op |-> "none"]

StatusBadRequest == 400
ErrMetricNotFound == "the server could not find the metric for the resource"

Lookup(m, k) ==
    IF k \in DOMAIN m THEN [value |-> m[k], err |-> Nil]
    ELSE [value |-> 0, err |-> ErrMetricNotFound]
Infos(m) == {k.CustomMetricInfo : k \in DOMAIN m}

NewPLog ==
    [started |-> 0,         \* requests begun
     overlap |-> FALSE,     \* two requests have been served at the same time
     last |-> 0,            \* handler whose request finished last
     lastRead |-> <<>>]     \* per key, what ReadEntity gave the latest write
                            \* whose body it read without error

\* NewE2EProvider: values: make(map[CustomMetricResource]int64)
NewE2EProvider ==
    /\ values = <<>>
    /\ hpc = [h \in Handlers |-> "idle"]
    /\ hreq = [h \in Handlers |-> NoRequest]
    /\ hres = [h \in Handlers |-> NoResult]
    /\ plog = NewPLog

\* the HTTP server starts serving a request on a goroutine of its own
BeginRequest(h, r, at) ==
    /\ hpc[h] = "idle"
    /\ plog.started < MaxRequests
    /\ hreq' = [hreq EXCEPT ![h] = r]
    /\ hres' = [hres EXCEPT ![h] = NoResult]
    /\ hpc' = [hpc EXCEPT ![h] = at]
    /\ plog' = [plog EXCEPT !.started = @ + 1,
                            !.overlap = @ \/ \E g \in Handlers \ {h} : hpc[g] # "idle"]
    /\ UNCHANGED values

BeginUpdateResource(h) == \E r \in UpdateRequests : BeginRequest(h, r, "read")
BeginValueFor(h) == \E r \in ValueRequests : BeginRequest(h, r, "load")
BeginListAllMetrics(h) == BeginRequest(h, ListRequest, "range")

\* err := request.ReadEntity(&value); err != nil: WriteErrorString(400, ...)
ReadEntityFailed(h) ==
    /\ hpc[h] = "read"
    /\ ReadEntity(hreq[h].body).err # Nil
    /\ hres' = [hres EXCEPT ![h] = [status |-> StatusBadRequest, body |-> ReadEntity(hreq[h].body).err]]
    /\ hpc' = [hpc EXCEPT ![h] = "idle"]
    /\ plog' = [plog EXCEPT !.last = h]
    /\ UNCHANGED <<values, hreq>>

\* ReadEntity left value nil: value.Value at the assignment to p.values
\* panics, nothing is stored and the handler writes no response
ReadEntityNil(h) ==
    /\ hpc[h] = "read"
    /\ ReadEntity(hreq[h].body).err = Nil
    /\ ReadEntity(hreq[h].body).value = NilPtr
    /\ hres' = [hres EXCEPT ![h] = [panic |-> "nil pointer dereference"]]
    /\ hpc' = [hpc EXCEPT ![h] = "idle"]
    /\ plog' = [plog EXCEPT !.last = h,
                            !.lastRead = MapPut(@, updateKey(hreq[h]), NilPtr)]
    /\ UNCHANGED <<values, hreq>>

\* ReadEntity filled value: the handler reaches p.values[metricInfo] = value.Value
ReadEntityOK(h) ==
    /\ hpc[h] = "read"
    /\ ReadEntity(hreq[h].body).err = Nil
    /\ ReadEntity(hreq[h].body).value # NilPtr
    /\ hpc' = [hpc EXCEPT ![h] = "store"]
    /\ plog' = [plog EXCEPT !.lastRead = MapPut(@, updateKey(hreq[h]), ReadEntity(hreq[h].body).value)]
    /\ UNCHANGED <<values, hreq, hres>>

\* Accesses of p.values are not synchronised.  A write that overlaps another
\* access of the map is a data race: the write may be lost, a read may see
\* the map with or without it, and the runtime may stop the process.
Storing(h) == hpc[h] = "store"
Accessing(h) == hpc[h] \in {"store", "load", "range"}
RacingAccess(h) ==
    \E g \in Handlers \ {h} : (Storing(h) /\ Accessing(g)) \/ (Accessing(h) /\ Storing(g))
Pending(h) ==
    {MapPut(values, updateKey(hreq[g]), ReadEntity(hreq[g].body).value.Value) :
        g \in {f \in Handlers \ {h} : Storing(f)}}
Visible(h) == IF RacingAccess(h) THEN {values} \cup Pending(h) ELSE {values}

\* p.values[metricInfo] = value.Value
StoreValue(h) ==
    /\ hpc[h] = "store"
    /\ \E m \in Visible(h) :
        values' \in {MapPut(m, updateKey(hreq[h]), ReadEntity(hreq[h].body).value.Value)}
                        \cup (IF RacingAccess(h) THEN {values} ELSE {})
    /\ hres' = [hres EXCEPT ![h] = [stored |-> TRUE]]
    /\ hpc' = [hpc EXCEPT ![h] = "idle"]
    /\ plog' = [plog EXCEPT !.last = h]
    /\ UNCHANGED hreq

\* value, found := p.values[metricInfo]
LoadValue(h) ==
    /\ hpc[h] = "load"
    /\ \E m \in Visible(h) : hres' = [hres EXCEPT ![h] = Lookup(m, valueKey(hreq[h]))]
    /\ hpc' = [hpc EXCEPT ![h] = "idle"]
    /\ plog' = [plog EXCEPT !.last = h]
    /\ UNCHANGED <<values, hreq>>

\* ListAllMetrics: for resource := range p.values
RangeValues(h) ==
    /\ hpc[h] = "range"
    /\ \E m \in Visible(h) : hres' = [hres EXCEPT ![h] = [infos |-> Infos(m)]]
    /\ hpc' = [hpc EXCEPT ![h] = "idle"]
    /\ plog' = [plog EXCEPT !.last = h]
    /\ UNCHANGED <<values, hreq>>

\* the runtime detects the concurrent map access and stops the process
FatalMapAccess(h) ==
    /\ Accessing(h)
    /\ RacingAccess(h)
    /\ hpc' = [g \in Handlers |-> "crashed"]
    /\ UNCHANGED <<values, hreq, hres, plog>>

NextProv ==
    \E h \in Handlers :
        \/ BeginUpdateResource(h) /\ UNCHANGED <<cvars, nvars, xvars, dvars>>
        \/ BeginValueFor(h) /\ UNCHANGED <<cvars, nvars, xvars, dvars>>
        \/ BeginListAllMetrics(h) /\ UNCHANGED <<cvars, nvars, xvars, dvars>>
        \/ ReadEntityFailed(h) /\ UNCHANGED <<cvars, nvars, xvars, dvars>>
        \/ ReadEntityNil(h) /\ UNCHANGED <<cvars, nvars, xvars, dvars>>
        \/ ReadEntityOK(h) /\ UNCHANGED <<cvars, nvars, xvars, dvars>>
        \/ StoreValue(h) /\ UNCHANGED <<cvars, nvars, xvars, dvars>>
        \/ LoadValue(h) /\ UNCHANGED <<cvars, nvars, xvars, dvars>>
        \/ RangeValues(h) /\ UNCHANGED <<cvars, nvars, xvars, dvars>>
        \/ FatalMapAccess(h) /\ UNCHANGED <<cvars, nvars, xvars, dvars>>

\* ----------------------------------------------- APIVersionsFromDiscovery
\* cached.ErrCacheEmpty, the error of a cached discovery client that has
\* nothing cached
ErrCacheEmpty == "the cache has not been filled yet"
ErrNoGroup == "no metrics API group registered"

\* maybeFetchVersions on the outcome resp of d.CachedDiscoveryInterface.ServerGroups()
maybeFetchVersions(resp) ==
    IF resp.err # Nil THEN [group |-> NilPtr, present |-> FALSE, err |-> resp.err]
    ELSE LET i == findGroup(resp.groups, 1)
         IN  IF i = 0 THEN [group |-> NilPtr, present |-> FALSE, err |-> Nil]
             ELSE [group |-> resp.groups[i], present |-> TRUE, err |-> Nil]

\* what the cached discovery client may answer to one ServerGroups call
CachedResponses == NegResponses \cup {ErrResp(ErrCacheEmpty)}

AskedGroups(resp) == [call |-> "ServerGroups", resp |-> resp]
Invalidated == [call |-> "Invalidate"]

NoVersionsCall ==
    /\ vpc = "off"
    /\ vfetch = NoResult
    /\ vret = NoResult
    /\ vlog = <<>>

InitVers ==
    /\ vpc = "start"
    /\ vfetch = NoResult
    /\ vret = NoResult
    /\ vlog = <<>>

\* group, present, err := d.maybeFetchVersions()
VersionsFetch ==
    /\ vpc = "start"
    /\ \E resp \in CachedResponses :
        /\ vfetch' = maybeFetchVersions(resp)
        /\ vlog' = Append(vlog, AskedGroups(resp))
    /\ vpc' = "fetched"
    /\ UNCHANGED vret

\* the miss test invalidating after any error
VersionsInvalidate_AnyError ==
    /\ vpc = "fetched"
    /\ (~vfetch.present \/ vfetch.err # Nil)
    /\ vlog' = Append(vlog, Invalidated)
    /\ vpc' = "invalidated"
    /\ UNCHANGED <<vfetch, vret>>

\* (err == nil && !present) || err == cached.ErrCacheEmpty: d.Invalidate()
VersionsInvalidate ==
    /\ vpc = "fetched"
    /\ ((vfetch.err = Nil /\ ~vfetch.present) \/ vfetch.err = ErrCacheEmpty)
    /\ vlog' = Append(vlog, Invalidated)
    /\ vpc' = "invalidated"
    /\ UNCHANGED <<vfetch, vret>>

\* group, present, err = d.maybeFetchVersions(), after the Invalidate
VersionsRefetch ==
    /\ vpc = "invalidated"
    /\ \E resp \in CachedResponses :
        /\ vfetch' = maybeFetchVersions(resp)
        /\ vlog' = Append(vlog, AskedGroups(resp))
    /\ vpc' = "refetched"
    /\ UNCHANGED vret

\* the three returns of Versions
VersionsReturn ==
    /\ \/ vpc = "refetched"
       \/ /\ vpc = "fetched"
          /\ ~((vfetch.err = Nil /\ ~vfetch.present) \/ vfetch.err = ErrCacheEmpty)
    /\ vret' = IF vfetch.err # Nil THEN [group |-> NilPtr, err |-> vfetch.err]
               ELSE IF ~vfetch.present THEN [group |-> NilPtr, err |-> ErrNoGroup]
               ELSE [group |-> vfetch.group, err |-> Nil]
    /\ vpc' = "done"
    /\ UNCHANGED <<vfetch, vlog>>

NextVers ==
    \/ VersionsFetch /\ UNCHANGED <<cvars, nvars, xvars, pvars>>
    \/ VersionsInvalidate /\ UNCHANGED <<cvars, nvars, xvars, pvars>>
    \/ VersionsRefetch /\ UNCHANGED <<cvars, nvars, xvars, pvars>>
    \/ VersionsReturn /\ UNCHANGED <<cvars, nvars, xvars, pvars>>

\* ------------------------------------------------------- MetricConverter
\* An object of the metrics API: the version of its type and its content.
\* The content is "full" or, after a conversion that drops part of it,
\* "partial".
Obj(gv, data) == [gv |-> gv, data |-> data]
Unregistered == GV(GroupName, "v1")
ObjectVersions == {V1beta1, V1beta2, Internal}
Contents == {"full", "partial"}

\* The conversions of the scheme, one per pair of distinct registered
\* versions on a path through the internal version.  The scheme is built
\* outside this package: each conversion keeps the content ("exact"), drops
\* part of it ("lossy") or is not defined ("missing").
Legs == {<<V1beta1, Internal>>, <<V1beta2, Internal>>, <<Internal, V1beta1>>, <<Internal, V1beta2>>}
Schemes == [Legs -> {"exact", "lossy", "missing"}]
ErrNotRegisteredKind == "no kind is registered for the target version"
ErrNoConversion == "converting between these versions is not supported"

\* c.scheme.UnsafeConvertToVersion(obj, target)
schemeConvert(obj, target) ==
    IF target \notin ObjectVersions THEN [obj |-> NilPtr, err |-> ErrNotRegisteredKind]
    ELSE IF obj.gv = target THEN [obj |-> obj, err |-> Nil]
    ELSE IF scheme[<<obj.gv, target>>] = "missing" THEN [obj |-> NilPtr, err |-> ErrNoConversion]
    ELSE IF scheme[<<obj.gv, target>>] = "lossy" THEN [obj |-> Obj(target, "partial"), err |-> Nil]
    ELSE [obj |-> Obj(target, obj.data), err |-> Nil]

\* the calls a converter method makes, in order
Converted(target) == [call |-> "UnsafeConvertToVersion", to |-> target]
Decoded(versions) == [call |-> "Decode", versions |-> versions]
AskedVersions == [call |-> "metricsVersions"]
NegotiatedVersion == [call |-> "negotiatePreferredVersion"]

ErrToInternal == "failed to convert the given object to the internal version: "
ErrToExternal == "failed to convert the given object back to the external version: "

UnsafeConvertToVersionVia_ShortCircuit(obj, externalVersion) ==
    LET internal == GV(externalVersion.Group, APIVersionInternal)
        objInt == schemeConvert(obj, internal)
        objExt == schemeConvert(objInt.obj, externalVersion)
    IN  IF obj.gv = externalVersion
        THEN [obj |-> obj, err |-> Nil, log |-> <<>>]
        ELSE IF objInt.err # Nil
        THEN [obj |-> NilPtr, err |-> ErrToInternal \o objInt.err,
              log |-> <<Converted(internal)>>]
        ELSE IF objExt.err # Nil
        THEN [obj |-> NilPtr, err |-> ErrToExternal \o objExt.err,
              log |-> <<Converted(internal), Converted(externalVersion)>>]
        ELSE [obj |-> objExt.obj, err |-> objExt.err,
              log |-> <<Converted(internal), Converted(externalVersion)>>]

UnsafeConvertToVersionVia_KeepsObject(obj, externalVersion) ==
    LET internal == GV(externalVersion.Group, APIVersionInternal)
        objInt == schemeConvert(obj, internal)
        objExt == schemeConvert(objInt.obj, externalVersion)
    IN  IF objInt.err # Nil
        THEN [obj |-> NilPtr, err |-> ErrToInternal \o objInt.err,
              log |-> <<Converted(internal)>>]
        ELSE [obj |-> IF objExt.err # Nil THEN objInt.obj ELSE objExt.obj,
              err |-> IF objExt.err # Nil THEN ErrToExternal \o objExt.err ELSE Nil,
              log |-> <<Converted(internal), Converted(externalVersion)>>]

UnsafeConvertToVersionVia(obj, externalVersion) ==
    LET internal == GV(externalVersion.Group, APIVersionInternal)
        objInt == schemeConvert(obj, internal)
        objExt == schemeConvert(objInt.obj, externalVersion)
    IN  IF objInt.err # Nil
        THEN [obj |-> NilPtr, err |-> ErrToInternal \o objInt.err,
              log |-> <<Converted(internal)>>]
        ELSE IF objExt.err # Nil
        THEN [obj |-> NilPtr, err |-> ErrToExternal \o objExt.err,
              log |-> <<Converted(internal), Converted(externalVersion)>>]
        ELSE [obj |-> objExt.obj, err |-> objExt.err,
              log |-> <<Converted(internal), Converted(externalVersion)>>]

ConvertListOptionsToPreferredVersion_NewestKnown(opts, mv) ==
    IF mv.err # Nil
    THEN [obj |-> NilPtr, err |-> mv.err, log |-> <<AskedVersions>>]
    ELSE LET preferredVersion == negotiatePreferredVersion(mv.group)
         IN  IF preferredVersion.err # Nil
             THEN [obj |-> NilPtr, err |-> preferredVersion.err,
                   log |-> <<AskedVersions, NegotiatedVersion>>]
             ELSE LET paramObj == UnsafeConvertToVersionVia(opts, MetricVersions[1])
                  IN  IF paramObj.err # Nil
                      THEN [obj |-> NilPtr, err |-> paramObj.err,
                            log |-> <<AskedVersions, NegotiatedVersion>> \o paramObj.log]
                      ELSE [obj |-> paramObj.obj, err |-> Nil,
                            log |-> <<AskedVersions, NegotiatedVersion>> \o paramObj.log]

\* ConvertListOptionsToPreferredVersion(opts), mv being what c.metricsVersions() gives
ConvertListOptionsToPreferredVersion(opts, mv) ==
    IF mv.err # Nil
    THEN [obj |-> NilPtr, err |-> mv.err, log |-> <<AskedVersions>>]
    ELSE LET preferredVersion == negotiatePreferredVersion(mv.group)
         IN  IF preferredVersion.err # Nil
             THEN [obj |-> NilPtr, err |-> preferredVersion.err,
                   log |-> <<AskedVersions, NegotiatedVersion>>]
             ELSE LET paramObj == UnsafeConvertToVersionVia(opts, preferredVersion.gv)
                  IN  IF paramObj.err # Nil
                      THEN [obj |-> NilPtr, err |-> paramObj.err,
                            log |-> <<AskedVersions, NegotiatedVersion>> \o paramObj.log]
                      ELSE [obj |-> paramObj.obj, err |-> Nil,
                            log |-> <<AskedVersions, NegotiatedVersion>> \o paramObj.log]

\* runtime.Decode(c.codecs.UniversalDecoder(versions...), metricBytes): the
\* payload is decoded if its version is one of those given to the decoder
ErrDecode == "no kind is registered for the version of the payload"
Decode(versions, metricBytes) ==
    IF \E i \in DOMAIN versions : versions[i] = metricBytes.gv
    THEN [obj |-> Obj(metricBytes.gv, metricBytes.data), err |-> Nil]
    ELSE [obj |-> NilPtr, err |-> ErrDecode]

ConvertResultToVersion_DecodeRequested(res, gv) ==
    IF res.err # Nil THEN [obj |-> NilPtr, err |-> res.err, log |-> <<>>]
    ELSE IF res.rawErr # Nil THEN [obj |-> NilPtr, err |-> res.rawErr, log |-> <<>>]
    ELSE LET rawMetricObj == Decode(<<gv>>, res.body)
         IN  IF rawMetricObj.err # Nil
             THEN [obj |-> NilPtr, err |-> rawMetricObj.err, log |-> <<Decoded(<<gv>>)>>]
             ELSE LET metricObj == UnsafeConvertToVersionVia(rawMetricObj.obj, gv)
                  IN  IF metricObj.err # Nil
                      THEN [obj |-> NilPtr, err |-> metricObj.err,
                            log |-> <<Decoded(<<gv>>)>> \o metricObj.log]
                      ELSE [obj |-> metricObj.obj, err |-> Nil,
                            log |-> <<Decoded(<<gv>>)>> \o metricObj.log]

\* ConvertResultToVersion(res, gv); res.Error() is res.err, res.Raw() is
\* (res.body, res.rawErr)
ConvertResultToVersion(res, gv) ==
    IF res.err # Nil THEN [obj |-> NilPtr, err |-> res.err, log |-> <<>>]
    ELSE IF res.rawErr # Nil THEN [obj |-> NilPtr, err |-> res.rawErr, log |-> <<>>]
    ELSE LET rawMetricObj == Decode(MetricVersions, res.body)
         IN  IF rawMetricObj.err # Nil
             THEN [obj |-> NilPtr, err |-> rawMetricObj.err, log |-> <<Decoded(MetricVersions)>>]
             ELSE LET metricObj == UnsafeConvertToVersionVia(rawMetricObj.obj, gv)
                  IN  IF metricObj.err # Nil
                      THEN [obj |-> NilPtr, err |-> metricObj.err,
                            log |-> <<Decoded(MetricVersions)>> \o metricObj.log]
                      ELSE [obj |-> metricObj.obj, err |-> Nil,
                            log |-> <<Decoded(MetricVersions)>> \o metricObj.log]

\* ---------------------------------------------------------------- SpecConv
\* the calls of the bounded family
ViaCalls ==
    {[op |-> "UnsafeConvertToVersionVia", obj |-> Obj(v, d), gv |-> t] :
        v \in ObjectVersions, d \in Contents, t \in ObjectVersions \cup {Unregistered}}

ListOptionsCalls ==
    {[op |-> "ConvertListOptionsToPreferredVersion", opts |-> Obj(Internal, d),
      mv |-> [group |-> g, err |-> Nil]] : d \in Contents, g \in MetricsGroups}
    \cup {[op |-> "ConvertListOptionsToPreferredVersion", opts |-> Obj(Internal, d),
           mv |-> [group |-> NilPtr, err |-> e]] :
            d \in Contents, e \in DiscoveryErrors \cup {"no metrics API group registered"}}

ErrTransport == "the server has timed out"
ErrRaw == "unexpected end of the response body"
Results ==
    {[err |-> Nil, rawErr |-> Nil, body |-> Obj(v, d)] :
        v \in ObjectVersions \cup {Unregistered}, d \in Contents}
    \cup {[err |-> ErrTransport, rawErr |-> ErrTransport, body |-> NilPtr],
          [err |-> Nil, rawErr |-> ErrRaw, body |-> NilPtr]}

ResultCalls ==
    {[op |-> "ConvertResultToVersion", res |-> r, gv |-> t] :
        r \in Results, t \in ObjectVersions \cup {Unregistered}}

NoConverterCall ==
    /\ scheme = [l \in Legs |-> "exact"]
    /\ call = [op |-> "none"]
    /\ cpc = "off"
    /\ cret = NoResult

InitConv ==
    /\ scheme \in Schemes
    /\ call \in ViaCalls \cup ListOptionsCalls \cup ResultCalls
    /\ cpc = "called"
    /\ cret = NoResult

CallUnsafeConvertToVersionVia ==
    /\ cpc = "called"
    /\ call.op = "UnsafeConvertToVersionVia"
    /\ cret' = UnsafeConvertToVersionVia(call.obj, call.gv)
    /\ cpc' = "done"
    /\ UNCHANGED <<scheme, call>>

CallConvertListOptionsToPreferredVersion ==
    /\ cpc = "called"
    /\ call.op = "ConvertListOptionsToPreferredVersion"
    /\ cret' = ConvertListOptionsToPreferredVersion(call.opts, call.mv)
    /\ cpc' = "done"
    /\ UNCHANGED <<scheme, call>>

CallConvertResultToVersion ==
    /\ cpc = "called"
    /\ call.op = "ConvertResultToVersion"
    /\ cret' = ConvertResultToVersion(call.res, call.gv)
    /\ cpc' = "done"
    /\ UNCHANGED <<scheme, call>>

NextConv ==
    \/ CallUnsafeConvertToVersionVia /\ UNCHANGED <<cvars, nvars, dvars, pvars>>
    \/ CallConvertListOptionsToPreferredVersion /\ UNCHANGED <<cvars, nvars, dvars, pvars>>
    \/ CallConvertResultToVersion /\ UNCHANGED <<cvars, nvars, dvars, pvars>>

\* --------------------------------------------------------------- SpecNeg
InitNeg ==
    /\ nresp \in NegResponses
    /\ nstage = "input"
    /\ nfetch = NoResult
    /\ nchoose = NoResult
    /\ nneg = NoResult

\* groupInfo, err := d.fetchVersions()
NegFetchFound ==
    /\ nstage = "input"
    /\ fetchVersions(nresp).err = Nil
    /\ nfetch' = fetchVersions(nresp)
    /\ nstage' = "fetched"
    /\ UNCHANGED <<nresp, nchoose, nneg>>

\* fetchVersions failed: no negotiation
NegFetchFailed ==
    /\ nstage = "input"
    /\ fetchVersions(nresp).err # Nil
    /\ nfetch' = fetchVersions(nresp)
    /\ nstage' = "done"
    /\ UNCHANGED <<nresp, nchoose, nneg>>

\* both negotiators on the fetched group
NegNegotiate ==
    /\ nstage = "fetched"
    /\ nchoose' = chooseVersion(nfetch.group)
    /\ nneg' = negotiatePreferredVersion(nfetch.group)
    /\ nstage' = "done"
    /\ UNCHANGED <<nresp, nfetch>>

NextNeg ==
    \/ NegFetchFound /\ UNCHANGED <<cvars, xvars, dvars, pvars>>
    \/ NegFetchFailed /\ UNCHANGED <<cvars, xvars, dvars, pvars>>
    \/ NegNegotiate /\ UNCHANGED <<cvars, xvars, dvars, pvars>>

\* ------------------------------------------------------------------ Spec
\* NewAvailableAPIsGetter: nothing cached, the lock free, every caller idle
NewNote ==
    [op |-> "none",         \* the call in progress
     fetched |-> FALSE,     \* this call has invoked ServerGroups
     chose |-> FALSE,       \* this call has invoked chooseVersion
     respErr |-> Nil,       \* the error ServerGroups gave this call
     missing |-> FALSE,     \* ServerGroups answered this call without the metrics group
     src |-> 0,             \* discovery call the version in ret was negotiated from
     startInv |-> -1,       \* discovery calls made when the last Invalidate before
                            \* this call released the lock (-1: none had)
     solo |-> FALSE,        \* no other caller was active during this call
     duringFill |-> FALSE,  \* this Invalidate began while another caller was on the fill path
     prev |-> "none",       \* outcome of this caller's previous call
     prevSolo |-> FALSE]    \* no other caller was active since that call began

NewHist ==
    [calls |-> 0,           \* ServerGroups calls issued
     started |-> 0,         \* PreferredVersion and Invalidate calls begun
     invCalls |-> -1,       \* value of calls when the last Invalidate released the lock
     cacheSrc |-> 0,        \* discovery call the cached version was negotiated from
     callsSinceInv |-> 0,   \* ServerGroups calls since the last Invalidate
     okRets |-> {},         \* versions returned since the last Invalidate
     callsAfterOk |-> 0,    \* ServerGroups calls since then, after a successful return
     lastInv |-> "none",    \* what the last Invalidate found: "absent" or "present"
     failed |-> FALSE,      \* some fetch or negotiation has failed
     stored |-> {}]         \* versions ever stored in the cache

NewAvailableAPIsGetter ==
    /\ prefVersion = NilPtr
    /\ readers = {}
    /\ writers = {}
    /\ pc = [p \in Callers |-> "idle"]
    /\ groupInfo = [p \in Callers |-> NilPtr]
    /\ version = [p \in Callers |-> NilPtr]
    /\ ret = [p \in Callers |-> NoRet]
    /\ note = [p \in Callers |-> NewNote]
    /\ hist = NewHist

\* the answer of ServerGroups lists a group of the custom metrics API
HasGroup(resp) == \E i \in DOMAIN resp.groups : resp.groups[i].Name = GroupName

OthersIdle(p) == \A q \in Callers \ {p} : pc[q] = "idle"

\* positions of PreferredVersion between d.mu.Lock() and the deferred Unlock
FillPositions == {"recheck", "fetch", "inflight", "choose", "store", "Unlock"}
OtherFilling(p) == \E q \in Callers \ {p} : pc[q] \in FillPositions

\* a caller begins a call: the others are no longer alone
Begin(p, op) ==
    [q \in Callers |->
        IF q = p
        THEN [note[q] EXCEPT !.op = op, !.fetched = FALSE, !.chose = FALSE,
                             !.respErr = Nil, !.missing = FALSE, !.src = 0,
                             !.startInv = hist.invCalls, !.solo = OthersIdle(p)]
        ELSE [note[q] EXCEPT !.solo = FALSE, !.prevSolo = FALSE]]

\* a caller returns
End(p, outcome) ==
    [note EXCEPT ![p].op = "none", ![p].prev = outcome, ![p].prevSolo = note[p].solo,
                 ![p].duringFill = FALSE]

Outcome(r) ==
    IF r.err = Nil THEN "ok"
    ELSE IF r.err = ErrNotRegistered THEN "notRegistered"
    ELSE IF r.err = ErrNoKnownVersions THEN "negotiationErr"
    ELSE "discoveryErr"

Returned(p) ==
    [hist EXCEPT !.okRets = IF ret[p].err = Nil THEN @ \cup {ret[p].gv} ELSE @]

\* What a read of d.prefVersion by p can observe.  A read that is not ordered
\* with another caller's write of the field (that caller is at its store while
\* p reads) is a data race: it may see the old pointer, the new one, or a
\* pointer whose target is not yet visible.
Racing(p) == \E q \in Callers \ {p} : pc[q] \in {"store", "invStore"}
Observable(p) ==
    IF Racing(p)
    THEN {prefVersion, NilPtr, ZeroGV} \cup {version[q] : q \in {r \in Callers \ {p} : pc[r] = "store"}}
    ELSE {prefVersion}

CallPreferredVersion(p) ==
    /\ pc[p] = "idle"
    /\ hist.started < MaxOps
    /\ pc' = [pc EXCEPT ![p] = "RLock"]
    /\ note' = Begin(p, "PreferredVersion")
    /\ hist' = [hist EXCEPT !.started = @ + 1]
    /\ ret' = [ret EXCEPT ![p] = NoRet]
    /\ UNCHANGED <<prefVersion, readers, writers, groupInfo, version>>

\* RLock that does not wait for the holder of the write lock
RLock_NoWait(p) ==
    /\ pc[p] = "RLock"
    /\ readers' = readers \cup {p}
    /\ pc' = [pc EXCEPT ![p] = "check"]
    /\ UNCHANGED <<prefVersion, writers, groupInfo, version, ret, note, hist>>

\* d.mu.RLock().  sync.RWMutex also holds back new readers while a writer is
\* waiting; that only removes interleavings, so it is left out here.
RLock(p) ==
    /\ pc[p] = "RLock"
    /\ writers = {}
    /\ readers' = readers \cup {p}
    /\ pc' = [pc EXCEPT ![p] = "check"]
    /\ UNCHANGED <<prefVersion, writers, groupInfo, version, ret, note, hist>>

\* if d.prefVersion != nil { defer d.mu.RUnlock(); return *d.prefVersion, nil }
CacheHit(p) ==
    /\ pc[p] = "check"
    /\ \E v \in Observable(p) :
        /\ v # NilPtr
        /\ ret' = [ret EXCEPT ![p] = [gv |-> v, err |-> Nil]]
    /\ note' = [note EXCEPT ![p].src = hist.cacheSrc]
    /\ pc' = [pc EXCEPT ![p] = "hitReturn"]
    /\ UNCHANGED <<prefVersion, readers, writers, groupInfo, version, hist>>

\* the deferred RUnlock of the fast path, and the return
ReturnRUnlock(p) ==
    /\ pc[p] = "hitReturn"
    /\ readers' = readers \ {p}
    /\ pc' = [pc EXCEPT ![p] = "idle"]
    /\ note' = End(p, Outcome(ret[p]))
    /\ hist' = Returned(p)
    /\ UNCHANGED <<prefVersion, writers, groupInfo, version, ret>>

\* d.prefVersion == nil under the read lock
CacheMiss(p) ==
    /\ pc[p] = "check"
    /\ NilPtr \in Observable(p)
    /\ pc' = [pc EXCEPT ![p] = "RUnlock"]
    /\ UNCHANGED <<prefVersion, readers, writers, groupInfo, version, ret, note, hist>>

\* d.mu.RUnlock()
RUnlock(p) ==
    /\ pc[p] = "RUnlock"
    /\ readers' = readers \ {p}
    /\ pc' = [pc EXCEPT ![p] = "Lock"]
    /\ UNCHANGED <<prefVersion, writers, groupInfo, version, ret, note, hist>>

\* the fill path entered without waiting for the lock
Lock_NoWait(p) ==
    /\ pc[p] = "Lock"
    /\ writers' = writers \cup {p}
    /\ pc' = [pc EXCEPT ![p] = "recheck"]
    /\ UNCHANGED <<prefVersion, readers, groupInfo, version, ret, note, hist>>

\* d.mu.Lock()
Lock(p) ==
    /\ pc[p] = "Lock"
    /\ readers = {}
    /\ writers = {}
    /\ writers' = writers \cup {p}
    /\ pc' = [pc EXCEPT ![p] = "recheck"]
    /\ UNCHANGED <<prefVersion, readers, groupInfo, version, ret, note, hist>>

\* double check, someone might have beaten us to it
DoubleCheckHit(p) ==
    /\ pc[p] = "recheck"
    /\ \E v \in Observable(p) :
        /\ v # NilPtr
        /\ ret' = [ret EXCEPT ![p] = [gv |-> v, err |-> Nil]]
    /\ note' = [note EXCEPT ![p].src = hist.cacheSrc]
    /\ pc' = [pc EXCEPT ![p] = "Unlock"]
    /\ UNCHANGED <<prefVersion, readers, writers, groupInfo, version, hist>>

\* the fill path without the second presence check
DoubleCheckMiss_NoCheck(p) ==
    /\ pc[p] = "recheck"
    /\ pc' = [pc EXCEPT ![p] = "fetch"]
    /\ UNCHANGED <<prefVersion, readers, writers, groupInfo, version, ret, note, hist>>

DoubleCheckMiss(p) ==
    /\ pc[p] = "recheck"
    /\ NilPtr \in Observable(p)
    /\ pc' = [pc EXCEPT ![p] = "fetch"]
    /\ UNCHANGED <<prefVersion, readers, writers, groupInfo, version, ret, note, hist>>

\* fetchVersions: groups, err := d.client.ServerGroups() is issued
ServerGroupsCall(p) ==
    /\ pc[p] = "fetch"
    /\ pc' = [pc EXCEPT ![p] = "inflight"]
    /\ note' = [note EXCEPT ![p].fetched = TRUE]
    /\ hist' = [hist EXCEPT !.calls = @ + 1,
                            !.callsSinceInv = @ + 1,
                            !.callsAfterOk = IF hist.okRets # {} THEN @ + 1 ELSE @]
    /\ UNCHANGED <<prefVersion, readers, writers, groupInfo, version, ret>>

\* ServerGroups fails and the call is issued again
FetchVersionsError_Retry(p) ==
    /\ pc[p] = "inflight"
    /\ \E r \in ServerResponses :
        /\ r.err # Nil
        /\ note' = [note EXCEPT ![p].respErr = r.err]
    /\ hist' = [hist EXCEPT !.failed = TRUE]
    /\ pc' = [pc EXCEPT ![p] = "fetch"]
    /\ UNCHANGED <<prefVersion, readers, writers, groupInfo, version, ret>>

\* ServerGroups fails: fetchVersions and PreferredVersion return its error
FetchVersionsError(p) ==
    /\ pc[p] = "inflight"
    /\ \E r \in ServerResponses :
        /\ r.err # Nil
        /\ ret' = [ret EXCEPT ![p] = [gv |-> ZeroGV, err |-> fetchVersions(r).err]]
        /\ note' = [note EXCEPT ![p].respErr = r.err]
    /\ hist' = [hist EXCEPT !.failed = TRUE]
    /\ pc' = [pc EXCEPT ![p] = "Unlock"]
    /\ UNCHANGED <<prefVersion, readers, writers, groupInfo, version>>

\* ServerGroups answers without the custom metrics group
FetchVersionsNotRegistered(p) ==
    /\ pc[p] = "inflight"
    /\ \E r \in ServerResponses :
        /\ r.err = Nil
        /\ fetchVersions(r).err # Nil
        /\ ret' = [ret EXCEPT ![p] = [gv |-> ZeroGV, err |-> fetchVersions(r).err]]
        /\ note' = [note EXCEPT ![p].missing = ~HasGroup(r)]
    /\ hist' = [hist EXCEPT !.failed = TRUE]
    /\ pc' = [pc EXCEPT ![p] = "Unlock"]
    /\ UNCHANGED <<prefVersion, readers, writers, groupInfo, version>>

\* ServerGroups answers with the custom metrics group
FetchVersionsFound(p) ==
    /\ pc[p] = "inflight"
    /\ \E r \in ServerResponses :
        /\ fetchVersions(r).err = Nil
        /\ groupInfo' = [groupInfo EXCEPT ![p] = fetchVersions(r).group]
        /\ note' = [note EXCEPT ![p].missing = ~HasGroup(r)]
    /\ pc' = [pc EXCEPT ![p] = "choose"]
    /\ UNCHANGED <<prefVersion, readers, writers, version, ret, hist>>

\* the fill path assigning d.prefVersion before looking at err
ChooseVersionFailed_Stores(p) ==
    /\ pc[p] = "choose"
    /\ chooseVersion(groupInfo[p]).err # Nil
    /\ prefVersion' = chooseVersion(groupInfo[p]).gv
    /\ ret' = [ret EXCEPT ![p] = [gv |-> ZeroGV, err |-> chooseVersion(groupInfo[p]).err]]
    /\ note' = [note EXCEPT ![p].chose = TRUE]
    /\ hist' = [hist EXCEPT !.failed = TRUE]
    /\ groupInfo' = [groupInfo EXCEPT ![p] = NilPtr]
    /\ pc' = [pc EXCEPT ![p] = "Unlock"]
    /\ UNCHANGED <<readers, writers, version>>

\* prefVersion, err := d.chooseVersion(groupInfo), err != nil
ChooseVersionFailed(p) ==
    /\ pc[p] = "choose"
    /\ chooseVersion(groupInfo[p]).err # Nil
    /\ ret' = [ret EXCEPT ![p] = [gv |-> ZeroGV, err |-> chooseVersion(groupInfo[p]).err]]
    /\ note' = [note EXCEPT ![p].chose = TRUE]
    /\ hist' = [hist EXCEPT !.failed = TRUE]
    /\ groupInfo' = [groupInfo EXCEPT ![p] = NilPtr]
    /\ pc' = [pc EXCEPT ![p] = "Unlock"]
    /\ UNCHANGED <<prefVersion, readers, writers, version>>

\* prefVersion, err := d.chooseVersion(groupInfo), err == nil
ChooseVersionOK(p) ==
    /\ pc[p] = "choose"
    /\ chooseVersion(groupInfo[p]).err = Nil
    /\ version' = [version EXCEPT ![p] = chooseVersion(groupInfo[p]).gv]
    /\ note' = [note EXCEPT ![p].chose = TRUE]
    /\ groupInfo' = [groupInfo EXCEPT ![p] = NilPtr]
    /\ pc' = [pc EXCEPT ![p] = "store"]
    /\ UNCHANGED <<prefVersion, readers, writers, ret, hist>>

\* the fill path returning the negotiated version without caching it
StoreVersion_NoStore(p) ==
    /\ pc[p] = "store"
    /\ ret' = [ret EXCEPT ![p] = [gv |-> version[p], err |-> Nil]]
    /\ note' = [note EXCEPT ![p].src = hist.calls]
    /\ version' = [version EXCEPT ![p] = NilPtr]
    /\ pc' = [pc EXCEPT ![p] = "Unlock"]
    /\ UNCHANGED <<prefVersion, readers, writers, groupInfo, hist>>

\* d.prefVersion = &prefVersion; return *d.prefVersion, nil
StoreVersion(p) ==
    /\ pc[p] = "store"
    /\ prefVersion' = version[p]
    /\ ret' = [ret EXCEPT ![p] = [gv |-> version[p], err |-> Nil]]
    /\ note' = [note EXCEPT ![p].src = hist.calls]
    /\ hist' = [hist EXCEPT !.cacheSrc = hist.calls, !.stored = @ \cup {version[p]}]
    /\ version' = [version EXCEPT ![p] = NilPtr]
    /\ pc' = [pc EXCEPT ![p] = "Unlock"]
    /\ UNCHANGED <<readers, writers, groupInfo>>

\* the fill path returning without its deferred Unlock
ReturnUnlock_NoUnlock(p) ==
    /\ pc[p] = "Unlock"
    /\ pc' = [pc EXCEPT ![p] = "idle"]
    /\ note' = End(p, Outcome(ret[p]))
    /\ hist' = Returned(p)
    /\ UNCHANGED <<prefVersion, readers, writers, groupInfo, version, ret>>

\* the deferred Unlock of the fill path, and the return
ReturnUnlock(p) ==
    /\ pc[p] = "Unlock"
    /\ writers' = writers \ {p}
    /\ pc' = [pc EXCEPT ![p] = "idle"]
    /\ note' = End(p, Outcome(ret[p]))
    /\ hist' = Returned(p)
    /\ UNCHANGED <<prefVersion, readers, groupInfo, version, ret>>

CallInvalidate(p) ==
    /\ pc[p] = "idle"
    /\ hist.started < MaxOps
    /\ pc' = [pc EXCEPT ![p] = "invLock"]
    /\ note' = [Begin(p, "Invalidate") EXCEPT ![p].duringFill = OtherFilling(p)]
    /\ hist' = [hist EXCEPT !.started = @ + 1]
    /\ ret' = [ret EXCEPT ![p] = NoRet]
    /\ UNCHANGED <<prefVersion, readers, writers, groupInfo, version>>

\* Invalidate entered without waiting for the lock
InvalidateLock_NoWait(p) ==
    /\ pc[p] = "invLock"
    /\ writers' = writers \cup {p}
    /\ pc' = [pc EXCEPT ![p] = "invStore"]
    /\ UNCHANGED <<prefVersion, readers, groupInfo, version, ret, note, hist>>

\* Invalidate: d.mu.Lock()
InvalidateLock(p) ==
    /\ pc[p] = "invLock"
    /\ readers = {}
    /\ writers = {}
    /\ writers' = writers \cup {p}
    /\ pc' = [pc EXCEPT ![p] = "invStore"]
    /\ UNCHANGED <<prefVersion, readers, groupInfo, version, ret, note, hist>>

\* Invalidate leaving the cached version in place
InvalidateStore_Keep(p) ==
    /\ pc[p] = "invStore"
    /\ hist' = [hist EXCEPT !.callsSinceInv = 0, !.okRets = {}, !.callsAfterOk = 0,
                            !.lastInv = IF prefVersion = NilPtr THEN "absent" ELSE "present"]
    /\ pc' = [pc EXCEPT ![p] = "invUnlock"]
    /\ UNCHANGED <<prefVersion, readers, writers, groupInfo, version, ret, note>>

\* Invalidate refreshing the cache from discovery instead of clearing it
InvalidateStore_Refresh(p) ==
    /\ pc[p] = "invStore"
    /\ \E r \in ServerResponses :
        prefVersion' = IF fetchVersions(r).err = Nil /\ chooseVersion(fetchVersions(r).group).err = Nil
                       THEN chooseVersion(fetchVersions(r).group).gv
                       ELSE NilPtr
    /\ note' = [note EXCEPT ![p].fetched = TRUE]
    /\ hist' = [hist EXCEPT !.calls = @ + 1, !.cacheSrc = 0, !.callsSinceInv = 0, !.okRets = {},
                            !.callsAfterOk = 0,
                            !.lastInv = IF prefVersion = NilPtr THEN "absent" ELSE "present"]
    /\ pc' = [pc EXCEPT ![p] = "invUnlock"]
    /\ UNCHANGED <<readers, writers, groupInfo, version, ret>>

\* Invalidate: d.prefVersion = nil
InvalidateStore(p) ==
    /\ pc[p] = "invStore"
    /\ prefVersion' = NilPtr
    /\ hist' = [hist EXCEPT !.cacheSrc = 0, !.callsSinceInv = 0, !.okRets = {},
                            !.callsAfterOk = 0,
                            !.lastInv = IF prefVersion = NilPtr THEN "absent" ELSE "present"]
    /\ pc' = [pc EXCEPT ![p] = "invUnlock"]
    /\ UNCHANGED <<readers, writers, groupInfo, version, ret, note>>

\* Invalidate: the deferred Unlock, and the return
InvalidateUnlock(p) ==
    /\ pc[p] = "invUnlock"
    /\ writers' = writers \ {p}
    /\ pc' = [pc EXCEPT ![p] = "idle"]
    /\ note' = End(p, "Invalidate")
    /\ hist' = [hist EXCEPT !.invCalls = hist.calls]
    /\ UNCHANGED <<prefVersion, readers, groupInfo, version, ret>>

Init ==
    /\ NewAvailableAPIsGetter
    /\ NoConverterCall
    /\ NoVersionsCall
    /\ NewE2EProvider
    /\ nresp = ErrResp(Nil)
    /\ nstage = "off"
    /\ nfetch = NoResult
    /\ nchoose = NoResult
    /\ nneg = NoResult

Next ==
    \E p \in Callers :
        \/ CallPreferredVersion(p) /\ UNCHANGED <<nvars, xvars, dvars, pvars>>
        \/ RLock(p) /\ UNCHANGED <<nvars, xvars, dvars, pvars>>
        \/ CacheHit(p) /\ UNCHANGED <<nvars, xvars, dvars, pvars>>
        \/ ReturnRUnlock(p) /\ UNCHANGED <<nvars, xvars, dvars, pvars>>
        \/ CacheMiss(p) /\ UNCHANGED <<nvars, xvars, dvars, pvars>>
        \/ RUnlock(p) /\ UNCHANGED <<nvars, xvars, dvars, pvars>>
        \/ Lock(p) /\ UNCHANGED <<nvars, xvars, dvars, pvars>>
        \/ DoubleCheckHit(p) /\ UNCHANGED <<nvars, xvars, dvars, pvars>>
        \/ DoubleCheckMiss(p) /\ UNCHANGED <<nvars, xvars, dvars, pvars>>
        \/ ServerGroupsCall(p) /\ UNCHANGED <<nvars, xvars, dvars, pvars>>
        \/ FetchVersionsError(p) /\ UNCHANGED <<nvars, xvars, dvars, pvars>>
        \/ FetchVersionsNotRegistered(p) /\ UNCHANGED <<nvars, xvars, dvars, pvars>>
        \/ FetchVersionsFound(p) /\ UNCHANGED <<nvars, xvars, dvars, pvars>>
        \/ ChooseVersionFailed(p) /\ UNCHANGED <<nvars, xvars, dvars, pvars>>
        \/ ChooseVersionOK(p) /\ UNCHANGED <<nvars, xvars, dvars, pvars>>
        \/ StoreVersion(p) /\ UNCHANGED <<nvars, xvars, dvars, pvars>>
        \/ ReturnUnlock(p) /\ UNCHANGED <<nvars, xvars, dvars, pvars>>
        \/ CallInvalidate(p) /\ UNCHANGED <<nvars, xvars, dvars, pvars>>
        \/ InvalidateLock(p) /\ UNCHANGED <<nvars, xvars, dvars, pvars>>
        \/ InvalidateStore(p) /\ UNCHANGED <<nvars, xvars, dvars, pvars>>
        \/ InvalidateUnlock(p) /\ UNCHANGED <<nvars, xvars, dvars, pvars>>

Spec == Init /\ [][Next]_vars

\* SpecLive: the same callers, with at most MaxLiveOps calls begun.  A caller
\* inside a call keeps running: a goroutine that can take a step eventually
\* takes one, a lock that stays free is eventually acquired, and the
\* ServerGroups call returns.
MaxLiveOps == 2

NextLive == Next /\ hist'.started <= MaxLiveOps

Progress(p) ==
    /\ \/ RLock(p) \/ CacheHit(p) \/ ReturnRUnlock(p) \/ CacheMiss(p) \/ RUnlock(p)
       \/ Lock(p) \/ DoubleCheckHit(p) \/ DoubleCheckMiss(p) \/ ServerGroupsCall(p)
       \/ FetchVersionsError(p) \/ FetchVersionsNotRegistered(p) \/ FetchVersionsFound(p)
       \/ ChooseVersionFailed(p) \/ ChooseVersionOK(p) \/ StoreVersion(p) \/ ReturnUnlock(p)
       \/ InvalidateLock(p) \/ InvalidateStore(p) \/ InvalidateUnlock(p)
    /\ UNCHANGED <<nvars, xvars, dvars, pvars>>

Fairness == \A p \in Callers : WF_vars(Progress(p))

SpecLive == Init /\ [][NextLive]_vars /\ Fairness

InitNegAll ==
    /\ InitNeg
    /\ NoConverterCall
    /\ NoVersionsCall
    /\ NewE2EProvider
    /\ NewAvailableAPIsGetter

SpecNeg == InitNegAll /\ [][NextNeg]_vars

InitConvAll ==
    /\ InitConv
    /\ NoVersionsCall
    /\ NewE2EProvider
    /\ NewAvailableAPIsGetter
    /\ nresp = ErrResp(Nil)
    /\ nstage = "off"
    /\ nfetch = NoResult
    /\ nchoose = NoResult
    /\ nneg = NoResult

SpecConv == InitConvAll /\ [][NextConv]_vars

InitVersAll ==
    /\ InitVers
    /\ NewE2EProvider
    /\ NewAvailableAPIsGetter
    /\ NoConverterCall
    /\ nresp = ErrResp(Nil)
    /\ nstage = "off"
    /\ nfetch = NoResult
    /\ nchoose = NoResult
    /\ nneg = NoResult

SpecVers == InitVersAll /\ [][NextVers]_vars

InitProvAll ==
    /\ NewE2EProvider
    /\ NewAvailableAPIsGetter
    /\ NoConverterCall
    /\ NoVersionsCall
    /\ nresp = ErrResp(Nil)
    /\ nstage = "off"
    /\ nfetch = NoResult
    /\ nchoose = NoResult
    /\ nneg = NoResult

SpecProv == InitProvAll /\ [][NextProv]_vars

\* ================================================================= claims
\* the client's known set, by the string form of its members
IsKnown(s) == \E i \in DOMAIN MetricVersions : GVString(MetricVersions[i]) = s
Declared(g) == g.PreferredVersion.GroupVersion
Listed(g) == [i \in DOMAIN g.Versions |-> g.Versions[i].GroupVersion]
KnownIndexes(g) == {i \in DOMAIN g.Versions : IsKnown(Listed(g)[i])}
FirstKnownIndex(g) == CHOOSE i \in KnownIndexes(g) : \A j \in KnownIndexes(g) : i <= j
Negotiated == nstage = "done" /\ nfetch.err = Nil

\* C1: a group whose declared preferred version is non-empty and known is
\* negotiated to exactly that version by chooseVersion and by
\* negotiatePreferredVersion, whatever its version list holds.
C1_DeclaredPreferenceWins ==
    (Negotiated /\ Declared(nfetch.group) # "" /\ IsKnown(Declared(nfetch.group)))
        => /\ nchoose.err = Nil
           /\ GVString(nchoose.gv) = Declared(nfetch.group)
           /\ nneg.err = Nil
           /\ GVString(nneg.gv) = Declared(nfetch.group)

\* C1 witness: preferred v1beta1 is chosen although the list holds only v1beta2
C1_Witness ==
    /\ Negotiated
    /\ nfetch.group = makeAPIGroup("v1beta1", <<"v1beta2">>)
    /\ nchoose.gv = V1beta1

\* C2: with no declared preferred version the result is the first entry of
\* the advertised list, in the server's order, that is known; the order of
\* MetricVersions plays no part.
C2_ServerOrderWins ==
    (Negotiated /\ Declared(nfetch.group) = "" /\ KnownIndexes(nfetch.group) # {})
        => /\ nchoose.err = Nil
           /\ GVString(nchoose.gv) = Listed(nfetch.group)[FirstKnownIndex(nfetch.group)]

\* C2 witness: the server lists v1beta1 before v1beta2, the client v1beta2
\* before v1beta1, and v1beta1 is chosen
C2_Witness ==
    /\ Negotiated
    /\ nfetch.group = makeAPIGroup("", <<"v1beta1", "v1beta2">>)
    /\ MetricVersions[1] = V1beta2
    /\ nchoose.gv = V1beta1

\* the case of C3: the declared preferred version is not known, the list is
\* that version followed by one the client knows
C3_Case(g) ==
    /\ Declared(g) # ""
    /\ ~IsKnown(Declared(g))
    /\ Len(g.Versions) = 2
    /\ Listed(g)[1] = Declared(g)
    /\ IsKnown(Listed(g)[2])

\* C3 as claimed: in that case negotiation fails with the negotiation error
\* and returns no version.
C3_AsClaimed ==
    (Negotiated /\ C3_Case(nfetch.group))
        => nchoose.err = ErrNoKnownVersions /\ nchoose.gv = ZeroGV

\* C3 amended: in that case negotiation succeeds with the second, known,
\* entry of the list.
C3_FallsBackToList ==
    (Negotiated /\ C3_Case(nfetch.group))
        => /\ nchoose.err = Nil
           /\ GVString(nchoose.gv) = Listed(nfetch.group)[2]
           /\ nneg.err = Nil
           /\ GVString(nneg.gv) = Listed(nfetch.group)[2]

\* C3 witness: preferred v1, list [v1, v1beta2], v1 unknown: v1beta2 is chosen
C3_Witness ==
    /\ Negotiated
    /\ nfetch.group = makeAPIGroup("v1", <<"v1", "v1beta2">>)
    /\ nchoose = [gv |-> V1beta2, err |-> Nil]

NoneKnown(g) == ~IsKnown(Declared(g)) /\ KnownIndexes(g) = {}
\* the error PreferredVersion returns on the fill path
NegOutcomeErr == IF nfetch.err # Nil THEN nfetch.err ELSE nchoose.err

\* C4: the outcome is the negotiation error exactly when the group was
\* fetched and neither its declared preferred version nor any listed version
\* is known; every other fetched group is negotiated successfully; a failed
\* discovery call and a missing group give other errors.
C4_NegotiationFailsIffNoneKnown ==
    nstage = "done"
        => /\ (NegOutcomeErr = ErrNoKnownVersions)
                <=> (nfetch.err = Nil /\ NoneKnown(nfetch.group))
           /\ (nfetch.err = Nil /\ ~NoneKnown(nfetch.group))
                => (nchoose.err = Nil /\ nneg.err = Nil)
           /\ (nfetch.err = Nil) => (nneg.err = nchoose.err)
           /\ (nresp.err # Nil) => (NegOutcomeErr = nresp.err)
           /\ (nresp.err = Nil /\ nfetch.err # Nil) => (NegOutcomeErr = ErrNotRegistered)

\* C4 witness: a group with no preference and an empty list fails to negotiate
C4_Witness ==
    /\ nstage = "done"
    /\ nfetch.err = Nil
    /\ nfetch.group = makeAPIGroup("", <<>>)
    /\ nchoose.err = ErrNoKnownVersions

\* ---------------------------------------------------------- claims on Spec
\* p is about to return from PreferredVersion with the values in ret[p]
Returning(p) == pc[p] \in {"hitReturn", "Unlock"}
ReturningOK(p) == Returning(p) /\ ret[p].err = Nil
\* nobody else has been active since the start of p's previous call
Alone(p) == note[p].prevSolo /\ note[p].solo

\* C5 as claimed: between two Invalidates all PreferredVersion calls together
\* make at most one discovery call and return one value.
C5_AsClaimed ==
    /\ hist.callsSinceInv <= 1
    /\ Cardinality(hist.okRets) <= 1

\* C5 amended: once a PreferredVersion call has returned a version, and until
\* the next Invalidate, every PreferredVersion call returns that same version
\* and no further discovery call is made.
C5_CachedAfterSuccess ==
    /\ hist.callsAfterOk = 0
    /\ Cardinality(hist.okRets) <= 1
    /\ \A p \in Callers : (ReturningOK(p) /\ hist.okRets # {}) => ret[p].gv \in hist.okRets

\* C5 witness: a call is answered from the cache filled by an earlier call
C5_Witness ==
    \E p \in Callers :
        /\ pc[p] = "hitReturn"
        /\ ~note[p].fetched
        /\ ret[p].gv \in hist.okRets
        /\ hist.callsSinceInv = 1

\* C6: a PreferredVersion call of a caller whose previous call was Invalidate,
\* no other caller being active in between, invokes discovery.
C6_RefetchAfterInvalidate ==
    \A p \in Callers :
        (Returning(p) /\ note[p].prev = "Invalidate" /\ Alone(p)) => note[p].fetched

\* C6 witness: the Invalidate cleared a populated cache and the call fetches
C6_Witness ==
    \E p \in Callers :
        /\ pc[p] = "inflight"
        /\ note[p].prev = "Invalidate"
        /\ Alone(p)
        /\ hist.lastInv = "present"

\* C7: a PreferredVersion call begun after an Invalidate released the lock
\* returns a version negotiated from a discovery call issued after that
\* Invalidate.
C7_NoStaleAfterInvalidate ==
    \A p \in Callers :
        (ReturningOK(p) /\ note[p].startInv >= 0) => note[p].src > note[p].startInv

\* C7 witness: the cache was filled, invalidated and filled again by another
\* caller, and this call returns the second fill
C7_Witness ==
    \E p \in Callers :
        /\ pc[p] = "hitReturn"
        /\ ~note[p].fetched
        /\ note[p].startInv >= 1
        /\ note[p].src > note[p].startInv
        /\ hist.lastInv = "present"

\* C8: as long as no Invalidate has run and no fetch or negotiation has
\* failed, discovery is invoked at most once, exactly once when a caller has
\* a version, all callers get the same version, and a caller that finds the
\* version at the second check has made no discovery call.
C8_OneFetchUnderContention ==
    (hist.lastInv = "none" /\ ~hist.failed)
        => /\ hist.calls <= 1
           /\ Cardinality(hist.okRets \cup {ret[p].gv : p \in {q \in Callers : ReturningOK(q)}}) <= 1
           /\ \A p \in Callers : ReturningOK(p) => (hist.calls = 1 /\ ret[p].gv = prefVersion)
           /\ \A p \in Callers : pc[p] \in {"fetch", "inflight"} => hist.calls = IF pc[p] = "fetch" THEN 0 ELSE 1

\* C8 witness: a caller that missed at the first check finds the version at
\* the second check, after the winner of the race has returned it
C8_Witness ==
    \E p \in Callers :
        /\ pc[p] = "Unlock"
        /\ ret[p].err = Nil
        /\ ~note[p].fetched
        /\ hist.lastInv = "none"
        /\ ~hist.failed
        /\ hist.calls = 1
        /\ ret[p].gv \in hist.okRets

\* C9: the exclusive lock excludes every other holder, every read and write
\* of prefVersion is made under the lock in the matching mode and ordered
\* with every write, and what is read is absent or a version that a
\* successful fill has stored.
C9_LockProtectsCache ==
    /\ Cardinality(writers) <= 1
    /\ writers # {} => readers = {}
    /\ \A p \in Callers :
        /\ pc[p] \in {"check", "hitReturn", "RUnlock"} => p \in readers
        /\ pc[p] \in {"recheck", "fetch", "inflight", "choose", "store", "Unlock",
                      "invStore", "invUnlock"} => p \in writers
        /\ pc[p] \in {"check", "recheck"} => (~Racing(p) /\ Observable(p) = {prefVersion})
        /\ ReturningOK(p) => ret[p].gv \in hist.stored
    /\ prefVersion \in {NilPtr} \cup hist.stored

\* C9 witness: two callers hold the shared lock, one has read the stored version
C9_Witness ==
    /\ Cardinality(readers) = 2
    /\ \E p \in Callers : pc[p] = "hitReturn" /\ ret[p].gv = prefVersion
    /\ \E p \in Callers : pc[p] = "check"

\* C10: when ServerGroups fails, PreferredVersion returns that error and no
\* version, has not called chooseVersion and leaves the cache absent; the
\* caller's next PreferredVersion call, if nobody else was active meanwhile,
\* invokes discovery again.
C10_DiscoveryErrorNotCached ==
    \A p \in Callers :
        /\ (pc[p] = "Unlock" /\ note[p].respErr # Nil)
            => /\ ret[p] = [gv |-> ZeroGV, err |-> note[p].respErr]
               /\ ~note[p].chose
               /\ prefVersion = NilPtr
        /\ (Returning(p) /\ note[p].prev = "discoveryErr" /\ Alone(p)) => note[p].fetched

\* C10 witness: the call after a failed discovery call fails the same way
C10_Witness ==
    \E p \in Callers :
        /\ pc[p] = "Unlock"
        /\ note[p].respErr \in DiscoveryErrors
        /\ note[p].prev = "discoveryErr"
        /\ Alone(p)
        /\ note[p].fetched


\* C11: when ServerGroups succeeds without the custom metrics group,
\* PreferredVersion returns the not-registered error and no version, has not
\* negotiated and leaves the cache absent; the caller's next PreferredVersion
\* call, nobody else being active meanwhile, invokes discovery again.
C11_NotRegisteredNotCached ==
    \A p \in Callers :
        /\ (pc[p] \in {"choose", "store"}) => ~note[p].missing
        /\ (Returning(p) /\ note[p].missing)
            => /\ ret[p] = [gv |-> ZeroGV, err |-> ErrNotRegistered]
               /\ ~note[p].chose
               /\ prefVersion = NilPtr
        /\ (Returning(p) /\ note[p].prev = "notRegistered" /\ Alone(p)) => note[p].fetched

\* C11 witness: the group was missing at the caller's previous call, no
\* Invalidate has run, and this call fetches and gets a version
C11_Witness ==
    \E p \in Callers :
        /\ pc[p] = "Unlock"
        /\ note[p].prev = "notRegistered"
        /\ Alone(p)
        /\ hist.lastInv = "none"
        /\ note[p].fetched
        /\ ret[p].err = Nil
        /\ prefVersion = ret[p].gv


\* the client's known set
KnownVersions == {MetricVersions[i] : i \in DOMAIN MetricVersions}

\* C14: every version negotiated, cached or returned is one of MetricVersions.
C14_OnlyKnownVersions ==
    /\ prefVersion \in {NilPtr} \cup KnownVersions
    /\ hist.stored \subseteq KnownVersions
    /\ \A p \in Callers :
        /\ pc[p] = "store" => version[p] \in KnownVersions
        /\ ReturningOK(p) => ret[p].gv \in KnownVersions

\* C14 witness: the server has advertised a version the client does not know
\* before the ones it knows, and a known one is cached and returned
C14_Witness ==
    \E p \in Callers :
        /\ pc[p] = "Unlock"
        /\ note[p].chose
        /\ ret[p] = [gv |-> V1beta2, err |-> Nil]
        /\ prefVersion = V1beta2

\* C16: the cache is absent at construction; it becomes present only by the
\* store that ends a fill whose fetch and negotiation succeeded; it becomes
\* absent only by the store of Invalidate; a present version is never
\* replaced by another one.
C16_Step ==
    /\ (prefVersion = NilPtr /\ prefVersion' # NilPtr)
        => \E p \in Callers :
            /\ pc[p] = "store" /\ pc'[p] = "Unlock"
            /\ note[p].fetched /\ note[p].chose
            /\ p \in writers
            /\ prefVersion' = version[p]
            /\ ret'[p] = [gv |-> prefVersion', err |-> Nil]
    /\ (prefVersion # NilPtr /\ prefVersion' = NilPtr)
        => \E q \in Callers :
            /\ pc[q] = "invStore" /\ pc'[q] = "invUnlock"
            /\ q \in writers
    /\ (prefVersion # NilPtr /\ prefVersion' # NilPtr) => prefVersion' = prefVersion

C16_CacheLifecycle == (prefVersion = NilPtr) /\ [][C16_Step]_vars

\* C16 witness: a version was cached, cleared by Invalidate, and another
\* version is cached after the server changed what it advertises
C16_Witness ==
    /\ prefVersion # NilPtr
    /\ hist.lastInv = "present"
    /\ Cardinality(hist.stored) = 2

\* C17: Invalidate leaves the cache absent, makes no discovery call and
\* returns nothing; a second Invalidate right after the first finds the
\* cache absent and leaves the same state.
C17_InvalidateClears ==
    \A p \in Callers :
        /\ pc[p] \in {"invLock", "invStore", "invUnlock"}
            => (~note[p].fetched /\ ret[p] = NoRet)
        /\ pc[p] = "invUnlock" => prefVersion = NilPtr
        /\ (pc[p] = "invUnlock" /\ note[p].prev = "Invalidate" /\ Alone(p))
            => (hist.lastInv = "absent" /\ hist.calls = hist.invCalls)

\* C17 witness: a second Invalidate in a row, the first having cleared a
\* cached version
C17_Witness ==
    \E p \in Callers :
        /\ pc[p] = "invUnlock"
        /\ note[p].prev = "Invalidate"
        /\ Alone(p)
        /\ hist.stored # {}
        /\ hist.lastInv = "absent"

\* C18: a PreferredVersion call issues ServerGroups only if it has not
\* issued it before, and issues none when it returns a cached version; after
\* a failed fetch or negotiation the call does nothing but return that error.
C18_State ==
    \A p \in Callers :
        /\ pc[p] = "hitReturn" => ~note[p].fetched
        /\ (ReturningOK(p) /\ ~note[p].chose) => ~note[p].fetched
        /\ (pc[p] = "Unlock" /\ note[p].respErr # Nil) => ret[p].err = note[p].respErr

C18_Step ==
    \A p \in Callers :
        /\ (pc[p] = "fetch" /\ pc'[p] # "fetch")
            => (pc'[p] = "inflight" /\ ~note[p].fetched /\ note'[p].fetched)
        /\ (pc[p] = "inflight" /\ pc'[p] # "inflight")
            => (pc'[p] = "choose" \/ (pc'[p] = "Unlock" /\ ret'[p].err # Nil))
        /\ (pc[p] = "choose" /\ pc'[p] # "choose")
            => (pc'[p] = "store" \/ (pc'[p] = "Unlock" /\ ret'[p].err = ErrNoKnownVersions))
        /\ (pc[p] = "Unlock" /\ pc'[p] # "Unlock")
            => (pc'[p] = "idle" /\ ret'[p] = ret[p])

C18_AtMostOneFetchPerCall == []C18_State /\ [][C18_Step]_vars

\* C18 witness: a call whose negotiation failed is about to return that
\* error after its one discovery call
C18_Witness ==
    \E p \in Callers :
        /\ pc[p] = "Unlock"
        /\ note[p].fetched
        /\ ret[p].err = ErrNoKnownVersions
        /\ hist.calls = 1


\* C15: no successful negotiation, by chooseVersion or by
\* negotiatePreferredVersion, yields the internal version.
C15_InternalNeverNegotiated ==
    Negotiated
        => /\ nchoose.err = Nil => nchoose.gv.Version # APIVersionInternal
           /\ nneg.err = Nil => nneg.gv.Version # APIVersionInternal


\* ------------------------------------------------------------------ C12
ViaDone == cpc = "done" /\ call.op = "UnsafeConvertToVersionVia"
PivotOf(gv) == GV(gv.Group, APIVersionInternal)
LegKeeps(from, to) == from = to \/ scheme[<<from, to>>] = "exact"
LegDefined(from, to) == from = to \/ scheme[<<from, to>>] # "missing"
C12_Case == ViaDone /\ call.obj.gv = call.gv /\ call.gv \in KnownVersions

C13_ComposesViaInternal ==
    ViaDone
        => LET first == schemeConvert(call.obj, PivotOf(call.gv))
               second == schemeConvert(first.obj, call.gv)
           IN  /\ first.err # Nil
                    => /\ cret.err = ErrToInternal \o first.err
                       /\ cret.log = <<Converted(PivotOf(call.gv))>>
               /\ (first.err = Nil /\ second.err # Nil)
                    => /\ cret.err = ErrToExternal \o second.err
                       /\ cret.log = <<Converted(PivotOf(call.gv)), Converted(call.gv)>>
               /\ (first.err = Nil /\ second.err = Nil)
                    => /\ cret.err = Nil
                       /\ cret.obj = second.obj
                       /\ cret.log = <<Converted(PivotOf(call.gv)), Converted(call.gv)>>
               /\ cret.err # Nil => cret.obj = NilPtr

\* the second conversion of a call between two versions failed
C13_Witness ==
    /\ ViaDone
    /\ call.obj.gv = V1beta1
    /\ call.gv = V1beta2
    /\ cret.err = ErrToExternal \o ErrNoConversion
    /\ cret.obj = NilPtr

\* ------------------------------------------------------------------ C19
ListOptionsDone == cpc = "done" /\ call.op = "ConvertListOptionsToPreferredVersion"
CountOf(log, e) == Cardinality({i \in DOMAIN log : log[i] = e})
ExpectedVersion(g) ==
    IF IsKnown(Declared(g)) THEN Declared(g) ELSE Listed(g)[FirstKnownIndex(g)]

\* C19: ConvertListOptionsToPreferredVersion asks for the available versions
\* exactly once, then negotiates, then converts; on success the object
\* returned is the given list options in the negotiated version, and a
\* failure of any step is returned with a nil object and no later step.
C19_ThreeStepsInOrder ==
    ListOptionsDone
        => LET g == call.mv.group
               log == cret.log
           IN  /\ Len(log) >= 1 /\ log[1] = AskedVersions
               /\ CountOf(log, AskedVersions) = 1
               /\ call.mv.err # Nil
                    => /\ cret.obj = NilPtr
                       /\ cret.err = call.mv.err
                       /\ log = <<AskedVersions>>
               /\ (call.mv.err = Nil /\ NoneKnown(g))
                    => /\ cret.obj = NilPtr
                       /\ cret.err = ErrNoKnownVersions
                       /\ log = <<AskedVersions, NegotiatedVersion>>
               /\ (call.mv.err = Nil /\ ~NoneKnown(g))
                    => LET want == CHOOSE v \in KnownVersions : GVString(v) = ExpectedVersion(g)
                       IN  /\ Len(log) >= 3
                           /\ log[2] = NegotiatedVersion
                           /\ CountOf(log, NegotiatedVersion) = 1
                           /\ \A i \in 3..Len(log) : log[i].call = "UnsafeConvertToVersion"
                           /\ log[Len(log)].to \in {want, PivotOf(want)}
                           /\ cret.err = Nil
                                => /\ log[Len(log)].to = want
                                   /\ cret.obj = schemeConvert(call.opts, want).obj
                           /\ cret.err # Nil
                                => /\ cret.obj = NilPtr
                                   /\ ~LegDefined(Internal, want)

\* no version declared, the first listed version skipped, v1beta1 negotiated
C19_Witness ==
    /\ ListOptionsDone
    /\ call.mv.err = Nil
    /\ Declared(call.mv.group) = ""
    /\ Len(call.mv.group.Versions) >= 2
    /\ ~IsKnown(Listed(call.mv.group)[1])
    /\ cret.err = Nil
    /\ cret.obj = Obj(V1beta1, "full")

\* ------------------------------------------------------------------ C20
ResultDone == cpc = "done" /\ call.op = "ConvertResultToVersion"

\* C20: ConvertResultToVersion gives the response in the version asked for
\* whichever known version the server answered in: the payload is decoded
\* against all of MetricVersions and then converted to the version asked
\* for; a transport error, or an error reading the raw bytes, is returned
\* without decoding or converting.
C20_AnyKnownVersionDecoded ==
    ResultDone
        => LET res == call.res
           IN  /\ res.err # Nil
                    => cret = [obj |-> NilPtr, err |-> res.err, log |-> <<>>]
               /\ (res.err = Nil /\ res.rawErr # Nil)
                    => cret = [obj |-> NilPtr, err |-> res.rawErr, log |-> <<>>]
               /\ (res.err = Nil /\ res.rawErr = Nil)
                    => /\ Len(cret.log) >= 1
                       /\ cret.log[1] = Decoded(MetricVersions)
                       /\ cret.err = Nil => cret.obj.gv = call.gv
                       /\ cret.err # Nil => cret.obj = NilPtr
                       /\ (/\ res.body.gv \in KnownVersions
                           /\ call.gv \in KnownVersions
                           /\ LegDefined(res.body.gv, Internal)
                           /\ LegDefined(Internal, call.gv))
                            => /\ cret.err = Nil
                               /\ cret.obj.gv = call.gv
                               /\ cret.log[Len(cret.log)] = Converted(call.gv)

\* the server answered in v1beta1 and the caller asked for v1beta2
C20_Witness ==
    /\ ResultDone
    /\ call.res.err = Nil
    /\ call.res.rawErr = Nil
    /\ call.res.body.gv = V1beta1
    /\ call.gv = V1beta2
    /\ cret.err = Nil
    /\ cret.obj.gv = V1beta2


\* ------------------------------------------------------------------ C25
\* C25: on every advertised group, negotiatePreferredVersion and
\* chooseVersion either both succeed with the same version or both fail.
C25_NegotiatorsAgree ==
    Negotiated
        => /\ nchoose.err = Nil <=> nneg.err = Nil
           /\ nchoose.err = Nil => nneg.gv = nchoose.gv
           /\ nchoose.err # Nil => (nneg.err = nchoose.err /\ nneg.gv = NilPtr)

\* both negotiators took the declared preference over an earlier known
\* entry of the list
C25_Witness ==
    /\ Negotiated
    /\ IsKnown(Declared(nfetch.group))
    /\ KnownIndexes(nfetch.group) # {}
    /\ Listed(nfetch.group)[FirstKnownIndex(nfetch.group)] # Declared(nfetch.group)
    /\ nneg.err = Nil
    /\ GVString(nneg.gv) = Declared(nfetch.group)
    /\ nchoose.gv = nneg.gv


\* ------------------------------------------------------------------ C21
\* C21: MetricVersions has no duplicate entry and is the same in every
\* state; metricVersionsToGV holds exactly one entry per element of
\* MetricVersions, keyed by the element's string form and mapping to the
\* element, so a name advertised by the server is found in the table exactly
\* when it is the string form of a member of MetricVersions.
C21_TableMatchesMetricVersions ==
    /\ MetricVersions = <<V1beta2, V1beta1, Internal>>
    /\ \A i, j \in DOMAIN MetricVersions : MetricVersions[i] = MetricVersions[j] => i = j
    /\ DOMAIN metricVersionsToGV = {GVString(MetricVersions[i]) : i \in DOMAIN MetricVersions}
    /\ Cardinality(DOMAIN metricVersionsToGV) = Len(MetricVersions)
    /\ \A i \in DOMAIN MetricVersions :
        metricVersionsToGV[GVString(MetricVersions[i])] = MetricVersions[i]
    /\ nstage \in {"fetched", "done"} /\ nfetch.err = Nil
        => /\ Declared(nfetch.group) \in DOMAIN metricVersionsToGV <=> IsKnown(Declared(nfetch.group))
           /\ \A i \in DOMAIN nfetch.group.Versions :
                Listed(nfetch.group)[i] \in DOMAIN metricVersionsToGV <=> IsKnown(Listed(nfetch.group)[i])

\* a fetched group that declares a version outside the table and lists one
\* outside and one inside it, negotiated through the table
C21_Witness ==
    /\ Negotiated
    /\ Declared(nfetch.group) # ""
    /\ Declared(nfetch.group) \notin DOMAIN metricVersionsToGV
    /\ Len(nfetch.group.Versions) = 2
    /\ Listed(nfetch.group)[1] \notin DOMAIN metricVersionsToGV
    /\ Listed(nfetch.group)[2] \in DOMAIN metricVersionsToGV
    /\ nchoose.gv = metricVersionsToGV[Listed(nfetch.group)[2]]


\* ------------------------------------------------------------------ C23
\* C23: while a ServerGroups call issued by PreferredVersion is in flight
\* its caller holds the write lock, so at most one such call is in flight
\* and every other caller is idle or waiting for the lock: none reads the
\* cached version and none completes an Invalidate.  An Invalidate begun
\* during a fill clears the cache only after the fill has released the
\* lock, and the cache is absent when that Invalidate returns.
C23_FillExcludesOthers ==
    /\ Cardinality({p \in Callers : pc[p] = "inflight"}) <= 1
    /\ \A p \in Callers :
        pc[p] = "inflight"
            => /\ writers = {p}
               /\ readers = {}
               /\ \A q \in Callers \ {p} : pc[q] \in {"idle", "RLock", "Lock", "invLock"}
    /\ \A q \in Callers :
        /\ (pc[q] \in {"invStore", "invUnlock"} /\ note[q].duringFill) => ~OtherFilling(q)
        /\ pc[q] = "invUnlock" => prefVersion = NilPtr

\* an Invalidate begun during a fill that stored a version is about to
\* return, the cache cleared
C23_Witness ==
    \E q \in Callers :
        /\ pc[q] = "invUnlock"
        /\ note[q].duringFill
        /\ hist.lastInv = "present"
        /\ hist.calls = 1
        /\ prefVersion = NilPtr


\* ------------------------------------------------------------------ C24
Busy(p) == pc[p] # "idle"
C24_Released ==
    /\ \A p \in Callers : ~Busy(p) => (p \notin readers /\ p \notin writers)
    /\ readers \cup writers \subseteq Callers
C24_NoDeadlock == (\E p \in Callers : Busy(p)) => \E p \in Callers : ENABLED Progress(p)

\* C24: every PreferredVersion and every Invalidate call returns, on every
\* path, once the ServerGroups call it may have issued has returned; a
\* caller that has returned holds no lock; and in no state are all the
\* callers that are inside a call blocked.
C24_CallsReturnUnlocked ==
    /\ []C24_Released
    /\ []C24_NoDeadlock
    /\ \A p \in Callers : Busy(p) ~> ~Busy(p)

\* a call that ended with a discovery error and a call that ended with a
\* version have both returned, and the lock is free
C24_Witness ==
    /\ \A p \in Callers : ~Busy(p)
    /\ \E p, q \in Callers :
        /\ note[p].prev = "discoveryErr"
        /\ note[q].prev = "ok"
    /\ hist.started = MaxLiveOps
    /\ readers = {}
    /\ writers = {}


\* ------------------------------------------------------------------ C22
SentGroups(log) == {i \in DOMAIN log : log[i].call = "ServerGroups"}
SentInvalidate(log) == {i \in DOMAIN log : log[i] = Invalidated}
Missed(resp) == (resp.err = Nil /\ ~HasGroup(resp)) \/ resp.err = ErrCacheEmpty

\* C22: Versions calls Invalidate on the cached discovery client and fetches
\* a second time exactly when the first fetch found the metrics group absent
\* or got ErrCacheEmpty, and never tries again: per call at most one
\* Invalidate and at most two ServerGroups calls; any other discovery error
\* is returned without invalidating; and 'no metrics API group registered'
\* is returned only when the group is absent from the refetched answer.
C22_InvalidateOnceOnMiss ==
    /\ Cardinality(SentInvalidate(vlog)) <= 1
    /\ Cardinality(SentGroups(vlog)) <= 2
    /\ vpc = "done"
        => LET first == vlog[1].resp
           IN  /\ vlog[1].call = "ServerGroups"
               /\ Missed(first)
                    <=> /\ Len(vlog) = 3
                        /\ vlog[2] = Invalidated
                        /\ vlog[3].call = "ServerGroups"
               /\ ~Missed(first) <=> vlog = <<AskedGroups(first)>>
               /\ (first.err # Nil /\ first.err # ErrCacheEmpty)
                    => /\ vret = [group |-> NilPtr, err |-> first.err]
                       /\ SentInvalidate(vlog) = {}
               /\ vret.err = ErrNoGroup
                    => /\ Len(vlog) = 3
                       /\ vlog[3].resp.err = Nil
                       /\ ~HasGroup(vlog[3].resp)
               /\ LET last == vlog[Len(vlog)].resp
                  IN  /\ last.err # Nil => vret = [group |-> NilPtr, err |-> last.err]
                      /\ (last.err = Nil /\ HasGroup(last))
                            => /\ vret.err = Nil
                               /\ vret.group = last.groups[findGroup(last.groups, 1)]

\* the group was absent from the first answer and present in the second
C22_Witness ==
    /\ vpc = "done"
    /\ Len(vlog) = 3
    /\ vlog[1].resp = OkResp(<<OtherGroup>>)
    /\ vlog[2] = Invalidated
    /\ vret.err = Nil
    /\ vret.group = makeAPIGroup("v1beta1", <<"v1beta1">>)


\* ------------------------------------------------------------------ C26
\* requests have been served one after the other and none is being served
ServedInSequence == ~plog.overlap /\ \A h \in Handlers : hpc[h] = "idle"
Expected(k) ==
    IF k \in DOMAIN plog.lastRead
    THEN [value |-> plog.lastRead[k].Value, err |-> Nil]
    ELSE [value |-> 0, err |-> ErrMetricNotFound]

\* C26: after any sequence of write-metrics requests the provider holds, for
\* every key, the value of the most recent write to that key whose body was
\* read without error, and nothing for a key never written: valueFor
\* returns that value, or the metric-not-found error; a request whose body
\* cannot be read is answered with status 400 and changes nothing.
C26_LastReadableWriteWins ==
    ServedInSequence
        => /\ DOMAIN values = DOMAIN plog.lastRead
           /\ \A k \in DOMAIN values : [Value |-> values[k]] = plog.lastRead[k]
           /\ plog.last # 0
                => LET r == hreq[plog.last]
                       res == hres[plog.last]
                   IN  /\ r.op = "valueFor" => res = Expected(valueKey(r))
                       /\ (r.op = "updateResource" /\ ReadEntity(r.body).err # Nil)
                            => res.status = StatusBadRequest

\* ------------------------------------------------------------------ C27
\* C27: no write of the values map overlaps another access of it: an
\* updateResource at its assignment never coincides with another
\* updateResource at its assignment, a valueFor at its lookup or a
\* ListAllMetrics in its loop.
C27_NoOverlappingAccess ==
    \A h, g \in Handlers : (h # g /\ Storing(h)) => ~Accessing(g)

====
